---- MODULE Spec2Model ----
(***************************************************************************)
(* Writetainer-Lib: the create-and-verify workflow of PortainerFactory,    *)
(* the verification pollers and lookups of utils.ts and the environment-id *)
(* resolution of EnvironmentsMixin, as one state machine.                  *)
(*                                                                         *)
(* Every action is the code that runs between two suspension points        *)
(* (await) of one asynchronous call.  A remote request takes effect on the *)
(* remote side when its response is delivered.  Each call measures the     *)
(* time of its own polling loop (Date.now() - startTime) in milliseconds.  *)
(***************************************************************************)
EXTENDS Integers, Sequences, FiniteSets, TLC

(***************************************************************************)
(* Bounds of the model.                                                    *)
(***************************************************************************)
MaxCalls == 2
MaxLatency == 1000
MaxCreated == 3
MaxGets == 3
MaxLogged == 3

(***************************************************************************)
(* Constants of the program.                                               *)
(***************************************************************************)
Null == 0
DefaultRetryCount == 3
DefaultTimeoutMs == 5000
PollIntervalMs == 1000
RedeployWaitMs == 2000
ContainerVerifyTimeoutMs == 10000

Callers == {1}
Racers == {1, 2}
Latencies == {0, MaxLatency}

(***************************************************************************)
(* JavaScript values an optional numeric parameter can carry.              *)
(***************************************************************************)
Num(n) == [t |-> "num", v |-> n]
Undef == [t |-> "undefined", v |-> 0]
NaNv == [t |-> "nan", v |-> 0]
Str == [t |-> "string", v |-> 0]

\* !x
Falsy(x) == x.t \in {"undefined", "nan"} \/ (x.t = "num" /\ x.v = 0)
\* Math.floor(x)
Floor(x) == IF x.t = "num" THEN x ELSE NaNv
\* a < b on JavaScript numbers: false as soon as one side is NaN
JsLt(a, b) == a.t = "num" /\ b.t = "num" /\ a.v < b.v

\* the coercion with the negative-value test left out
NormalizeRetryCountFloorOnly(m) ==
    IF Falsy(m) THEN Num(DefaultRetryCount) ELSE Floor(m)

\* factory.ts: the coercion of maxRetryCount
NormalizeRetryCount(m) ==
    IF Falsy(m) THEN Num(DefaultRetryCount)
    ELSE IF JsLt(Floor(m), Num(0)) THEN Num(DefaultRetryCount)
    ELSE Floor(m)

\* factory.ts: the coercion of timeoutMs
NormalizeTimeoutMs(t) ==
    IF Falsy(t) THEN Num(DefaultTimeoutMs)
    ELSE IF JsLt(Floor(t), Num(0)) THEN Num(DefaultTimeoutMs)
    ELSE Floor(t)

\* utils.ts: the coercion of timeoutMs inside the verify functions
NormalizeVerifyTimeout(t) ==
    IF t.t = "undefined" THEN DefaultTimeoutMs
    ELSE IF t.t # "num" \/ t.v < 0 THEN DefaultTimeoutMs
    ELSE t.v

(***************************************************************************)
(* Remote records and results.                                             *)
(***************************************************************************)
Stack(id, name, env) == [Id |-> id, Name |-> name, EndpointId |-> env]
NoStack == Stack(0, "", 0)

NoResult == [kind |-> "none", Id |-> 0, Name |-> "", EndpointId |-> 0]
EmptyObject == [kind |-> "empty", Id |-> 0, Name |-> "", EndpointId |-> 0]
StackObject(s) == [kind |-> "stack", Id |-> s.Id, Name |-> s.Name, EndpointId |-> s.EndpointId]
\* {Id, Name: serviceName, method: 'direct-container', containerCreated: true, verified: true}
ContainerObject(id) == [kind |-> "container", Id |-> id, Name |-> "", EndpointId |-> 0]

\* Array.prototype.find: index of the first element satisfying P, 0 if none
FirstIndex(list, P(_)) ==
    IF \E i \in 1..Len(list) : P(list[i])
    THEN CHOOSE i \in 1..Len(list) : P(list[i]) /\ \A j \in 1..(i - 1) : ~P(list[j])
    ELSE 0

\* utils.ts getStackByName, given the outcome of the listing fetch
GetStackByName(list, fetched, stackName) ==
    IF stackName = "" \/ ~fetched THEN NoStack
    ELSE LET Match(s) == s.Name = stackName
             k == FirstIndex(list, Match)
         IN IF k = 0 THEN NoStack ELSE list[k]

\* getStackById matching on the id alone
GetStackByIdAnyEnv(list, fetched, stackid, environmentId) ==
    IF stackid <= 0 \/ environmentId <= 0 \/ ~fetched THEN NoStack
    ELSE LET Match(s) == s.Id = stackid
             k == FirstIndex(list, Match)
         IN IF k = 0 THEN NoStack ELSE list[k]

\* utils.ts getStackById, given the outcome of the listing fetch
GetStackById(list, fetched, stackid, environmentId) ==
    IF stackid <= 0 \/ environmentId <= 0 \/ ~fetched THEN NoStack
    ELSE LET Match(s) == s.Id = stackid /\ s.EndpointId = environmentId
             k == FirstIndex(list, Match)
         IN IF k = 0 THEN NoStack ELSE list[k]

\* utils.ts getFirstEnvironmentId, given the outcome of the listing fetch
GetFirstEnvironmentId(list, fetched) ==
    IF ~fetched \/ Len(list) = 0 THEN Null ELSE list[1]

(***************************************************************************)
(* Containers.  A name is a sequence of characters.                        *)
(***************************************************************************)
Container(id, names, state) == [Id |-> id, Names |-> names, State |-> state]
NoContainer == Container(0, <<>>, "")

LowerCaseLetters ==
    {"a", "b", "c", "d", "e", "f", "g", "h", "i", "j", "k", "l", "m",
     "n", "o", "p", "q", "r", "s", "t", "u", "v", "w", "x", "y", "z"}
Digits == {"0", "1", "2", "3", "4", "5", "6", "7", "8", "9"}

\* String.prototype.toLowerCase on one character
ToLowerCase(ch) ==
    CASE ch = "A" -> "a" [] ch = "B" -> "b" [] ch = "D" -> "d"
      [] ch = "P" -> "p" [] ch = "W" -> "w" [] OTHER -> ch

\* factory.ts 121: name.toLowerCase().replace(/[^a-z0-9-]/g, '-')
SanitizeName(name) ==
    [k \in 1..Len(name) |->
        LET ch == ToLowerCase(name[k])
        IN IF ch \in LowerCaseLetters \cup Digits \cup {"-"} THEN ch ELSE "-"]

\* String.prototype.includes
Includes(name, target) ==
    \E k \in 1..(Len(name) - Len(target) + 1) :
        SubSeq(name, k, k + Len(target) - 1) = target

\* ResourceFetchingMixin.ts getContainerDetails, given the resolved
\* environment and the outcome of the listing fetch: the container the
\* engine resolves the identifier to, else the first listed container one
\* of whose names contains the identifier
GetContainerDetails(list, envId, fetched, identifier) ==
    IF Len(identifier) = 0 \/ envId = Null \/ ~fetched THEN NoContainer
    ELSE LET Exact(c) == \E k \in 1..Len(c.Names) : c.Names[k] = <<"/">> \o identifier
             Partial(c) == \E k \in 1..Len(c.Names) : Includes(c.Names[k], identifier)
             e == FirstIndex(list, Exact)
             q == FirstIndex(list, Partial)
         IN IF e # 0 THEN list[e] ELSE IF q # 0 THEN list[q] ELSE NoContainer

\* ResourceDeletionMixin.ts 37-40: the container cleanup picks
CleanupTarget(list, containerName) ==
    LET Match(c) == \/ \E k \in 1..Len(c.Names) : Includes(c.Names[k], containerName)
                    \/ \E k \in 1..Len(c.Names) : c.Names[k] = <<"/">> \o containerName
    IN FirstIndex(list, Match)

\* name.replace('/', ''): the name without its first "/"
ReplaceFirstSlash(name) ==
    LET at == {k \in 1..Len(name) : name[k] = "/"}
    IN IF at = {} THEN name
       ELSE LET k == CHOOSE i \in at : \A j \in at : i <= j
            IN SubSeq(name, 1, k - 1) \o SubSeq(name, k + 1, Len(name))

\* getContainerByName matching on the exact name only
ContainerNameMatchesExactly(c, containerName) ==
    \/ \E k \in 1..Len(c.Names) : c.Names[k] = <<"/">> \o containerName
    \/ \E k \in 1..Len(c.Names) : ReplaceFirstSlash(c.Names[k]) = containerName

\* portainer/utils.ts 29-33: the predicate of getContainerByName's find
ContainerNameMatches(c, containerName) ==
    \/ \E k \in 1..Len(c.Names) : Includes(c.Names[k], containerName)
    \/ \E k \in 1..Len(c.Names) : c.Names[k] = <<"/">> \o containerName
    \/ \E k \in 1..Len(c.Names) : ReplaceFirstSlash(c.Names[k]) = containerName

\* portainer/utils.ts getContainerByName, given the outcome of the listing
\* fetch: the position of the container returned, 0 for null
GetContainerByName(list, fetched, containerName) ==
    IF ~fetched THEN 0
    ELSE LET Match(c) == ContainerNameMatches(c, containerName)
         IN FirstIndex(list, Match)

\* the predicate of getContainerByDetails with the criteria joined by OR
ContainerDetailsMatchAny(c, image, label) ==
    \/ image # "" /\ c.Image = image
    \/ label # "" /\ label \in DOMAIN c.Labels

\* utils.ts 58-67: the predicate of getContainerByDetails's find; a
\* criterion that is undefined or empty is not applied
ContainerDetailsMatch(c, image, label) ==
    /\ image # "" => c.Image = image
    /\ label # "" => label \in DOMAIN c.Labels

\* utils.ts getContainerByDetails after its validation, given the outcome
\* of the listing fetch: the position of the container returned, 0 for null
GetContainerByDetails(list, fetched, image, label) ==
    IF ~fetched THEN 0
    ELSE LET Match(c) == ContainerDetailsMatch(c, image, label)
         IN FirstIndex(list, Match)

VARIABLES
    containers,     \* remote: the container listing of the environment
    environmentId,  \* PortainerApi.instance.environmentId, Null when unset
    envs,           \* remote: the environment listing, ids in listing order
    stacks,         \* remote: the stack listing
    pending,        \* remote: accepted stack creations not yet listed
    created,        \* remote: number of creations accepted so far
    bgEnsure,       \* resolutions in flight that were started without awaiting
    calls,          \* number of calls started so far
    call,           \* per caller: the asynchronous call it is running
    instances,      \* the static `instance` fields and the getInstance calls made
    logger          \* ActiveLogger and the messages delivered so far

vars == <<environmentId, envs, stacks, pending, containers, created, bgEnsure, calls, call,
          instances, logger>>

StackNames == {"web", "api"}
\* <<maxRetryCount, timeoutMs>> as passed to createStack / createContainer
CreateArgs ==
    { <<Num(-5), Num(-100)>>, <<Num(3), Num(5000)>>,
      <<Undef, Num(100)>>, <<Num(0), Num(100)>>,
      <<Num(1), Undef>>, <<Num(1), Num(0)>>,
      <<Num(1), Num(2000)>>, <<Num(2), Num(100)>>, <<Num(2), Num(2000)>>,
      <<Str, Num(100)>> }
LiveArgs == { <<Num(2), Num(100)>>, <<Undef, Num(2500)>>, <<Str, Num(100)>> }
RaceArgs == { <<Num(1), Num(100)>> }
ContainerArgs == { <<Num(-5), Num(-100)>>, <<Num(1), Num(100)>>, <<Num(2), Undef>> }
LiveContainerArgs == { <<Num(2), Num(100)>> }
ContainerNameArgs == { <<"A", "p">>, <<"d", "_">> }
InitialContainers == << Container(1, << <<"/", "a", "p", "2">> >>, "running") >>
VerifyTimeoutArgs == {Undef, NaNv, Num(-5), Num(0), Num(100), Num(2000), Num(2500)}
StackIdArgs == {0, 5, 6}
EnvIdArgs == {0, 1, 2}
\* arguments of getInstance; Null is null or an omitted argument
InstanceArgs == {Null, 1, 2, 5}

\* what a listing fetch can do: deliver the listing, deliver nothing, raise
FetchOutcomes == {"ok", "nothing", "raised"}

DetailedContainer(id, names, image, labels) ==
    [Id |-> id, Names |-> names, State |-> "running", Image |-> image, Labels |-> labels]
MyApp == DetailedContainer(1, << <<"/", "m", "y", "-", "a", "p", "p">> >>,
                           "nginx", [tier |-> "web"])
Db == DetailedContainer(2, << <<"/", "d", "b">>, <<"/", "m", "y", "-", "a", "p", "p", "/", "d", "b">> >>,
                        "redis", [tier |-> "", app |-> "shop"])
App == DetailedContainer(3, << <<"/", "a", "p", "p">> >>, "nginx", [k \in {} |-> ""])
LookupListings == { <<>>, <<MyApp, Db, App>>, <<App, Db, MyApp>> }
NameQueries ==
    { <<"m", "y", "-", "a", "p", "p">>, <<"a", "p", "p">>,
      <<"/", "m", "y", "-", "a", "p", "p">>, <<"o", "t", "h", "e", "r">>, <<"d", "b">> }
\* "" stands for a criterion that is undefined or empty; label criteria are
\* Docker label keys
ImageArgs == {"", "nginx", "redis", "mysql"}
LabelArgs == {"", "tier", "app", "zone"}

InitialStacks == << Stack(5, "db", 2), Stack(6, "web", 1) >>
InitialEnvListings == { <<>>, <<2, 1>> }
\* the remote side numbers what it creates after the stacks it already has
FirstCreatedId == InitialStacks[Len(InitialStacks)].Id + 1

IdleCall ==
    [op |-> "idle", pc |-> "idle", outcome |-> "none",
     name |-> "", cname |-> <<>>, argRetry |-> Undef, argTimeout |-> Undef,
     maxRetryCount |-> Undef, timeoutMs |-> Undef,
     i |-> 0, envId |-> Null, resp |-> NoStack, result |-> NoResult,
     bres |-> FALSE, nres |-> Null,
     argId |-> 0, argEnv |-> 0, startEnv |-> Null, ensRet |-> "none",
     vTimeout |-> 0, elapsed |-> 0,
     containerId |-> 0, target |-> 0,
     existing |-> NoStack, ensNull |-> FALSE, fetchOk |-> FALSE,
     prevRes |-> Null, prevFetches |-> 0, prevStack |-> NoResult,
     found |-> FALSE, erred |-> FALSE,
     fetch |-> "none", argImage |-> "", argLabel |-> "", urlEnv |-> "none",
     cleanups |-> 0, cleanupFailed |-> "none",
     stopRes |-> "none", startRes |-> "none",
     attemptEnvs |-> <<>>, firstStatus |-> "none", retryStatus |-> "none",
     thrown |-> "none", byName |-> FALSE, deletes |-> 0, overridden |-> Null,
     posts |-> 0, verifs |-> 0, envFetches |-> 0, bgStarted |-> 0]

\* logger.ts 16-38: DefaultLogger is the active logger and nothing was logged
DefaultLogger == 0
NoMessages == [active |-> DefaultLogger, delivered |-> <<>>]

\* no getInstance call has been made: both static fields are undefined
NoInstances == [api |-> 0, factory |-> 0, client |-> 0, objects |-> 0, log |-> <<>>]

\* PortainerFactory.getInstance() has run: the client is object 1, the
\* factory object 2 holding the client
Constructed == [api |-> 1, factory |-> 2, client |-> 1, objects |-> 2, log |-> <<>>]

Init ==
    /\ environmentId \in {Null, 1}
    /\ envs \in InitialEnvListings
    /\ environmentId # Null => Len(envs) > 0
    /\ stacks = InitialStacks
    /\ pending = {}
    /\ containers = InitialContainers
    /\ created = 0
    /\ bgEnsure = 0
    /\ calls = 0
    /\ call = [p \in Racers |-> IdleCall]
    /\ instances = Constructed
    /\ logger = NoMessages

\* a caller may start a call when it is not inside one
CanStart(p, limit) == call[p].pc \in {"idle", "done"} /\ calls < limit

Return(c, how) == [c EXCEPT !.pc = "done", !.outcome = how]

(***************************************************************************)
(* createStack: the attempt loop (factory.ts 80-105).                      *)
(***************************************************************************)
\* the for loop with the bound i <= maxRetryCount
CSLoopInclusive(c) ==
    IF c.maxRetryCount.t = "num" /\ c.i <= c.maxRetryCount.v
    THEN [c EXCEPT !.pc = "cs_post", !.posts = @ + 1]
    ELSE Return([c EXCEPT !.result = EmptyObject], "exhausted")

\* head of the for loop: submit the next creation request or give up
CSLoop(c) ==
    IF JsLt(Num(c.i), c.maxRetryCount)
    THEN [c EXCEPT !.pc = "cs_post", !.posts = @ + 1]
    ELSE Return([c EXCEPT !.result = EmptyObject], "exhausted")

\* the branch on the result of verifyStackCreation
CSAfterVerify(c, verified) ==
    IF verified
    THEN Return([c EXCEPT !.result = StackObject(c.resp)], "created")
    ELSE CSLoop([c EXCEPT !.i = @ + 1])

\* the loop entered without the check on the resolved environment id
CSAfterEnsureUnchecked(c, id) ==
    CSLoop([c EXCEPT !.envId = id, !.i = 0, !.ensNull = (id = Null)])

\* after `await ensureEnvId()`: the precondition check, then the loop
CSAfterEnsure(c, id) ==
    IF id = Null
    THEN Return([c EXCEPT !.ensNull = TRUE], "threw")
    ELSE CSLoop([c EXCEPT !.envId = id, !.i = 0])

(***************************************************************************)
(* createContainer: the attempt loop (factory.ts 144-177).  `env` is the   *)
(* cached environment id at that instant: the request URL is built from an *)
(* un-awaited ensureEnvId(), which starts a resolution when none is cached.*)
(***************************************************************************)
Unawaited(c, env) ==
    IF env = Null
    THEN [c EXCEPT !.bgStarted = @ + 1, !.envFetches = @ + 1]
    ELSE c

\* the text a template literal gives for a Promise
ObjectPromise == "[object Promise]"

\* the text a template literal gives for a number
NumberText(n) == ToString(n)

\* lines 147 and 156: the endpoint segment of the request URL interpolates
\* the value ensureEnvId() returns, which is the promise itself
RequestUrl(c) == [c EXCEPT !.urlEnv = ObjectPromise]

\* the for loop ending in a throw when the attempts are used up
CCLoopThrows(c, env) ==
    IF JsLt(Num(c.i), c.maxRetryCount)
    THEN Unawaited(RequestUrl([c EXCEPT !.pc = "cc_create", !.posts = @ + 1]), env)
    ELSE Return(c, "threw")

\* head of the for loop: submit the next creation request or give up
CCLoop(c, env) ==
    IF JsLt(Num(c.i), c.maxRetryCount)
    THEN Unawaited(RequestUrl([c EXCEPT !.pc = "cc_create", !.posts = @ + 1]), env)
    ELSE Return([c EXCEPT !.result = EmptyObject], "exhausted")

\* the branch on the result of verifyContainerCreation
CCAfterVerify(c, verified, env) ==
    IF verified
    THEN Return([c EXCEPT !.result = ContainerObject(c.containerId)], "created")
    ELSE CCLoop([c EXCEPT !.i = @ + 1], env)

\* a failed cleanup ending the call
CCAfterCleanupAborts(c, env) ==
    IF c.cleanupFailed # "none" THEN Return(c, "threw")
    ELSE CCLoop([c EXCEPT !.i = 0], env)

\* cleanupExistingContainer has returned; its result is not used
CCAfterCleanup(c, env) == CCLoop([c EXCEPT !.i = 0], env)

\* cleanupExistingContainer after its `await ensureEnvId()`
CleanupAfterEnsure(c, id, env) ==
    IF id = Null
    THEN CCAfterCleanup([c EXCEPT !.cleanupFailed = "noenv"], env)
    ELSE [c EXCEPT !.envId = id, !.pc = "cc_clean_list"]

(***************************************************************************)
(* verifyStackCreation / verifyContainerCreation (utils.ts 141-219).       *)
(***************************************************************************)
VerifyReturn(c, b, env) ==
    IF c.op = "createStack" THEN CSAfterVerify(c, b)
    ELSE IF c.op = "createContainer" THEN CCAfterVerify(c, b, env)
    ELSE Return([c EXCEPT !.bres = b], "returned")

\* the loop condition leaving room for the sleep that follows
VerifyContinuesEarly(elapsed, timeoutMs) == elapsed + PollIntervalMs < timeoutMs

\* the loop condition Date.now() - startTime < timeoutMs
VerifyContinues(elapsed, timeoutMs) == elapsed < timeoutMs

\* the while loop with the condition elapsed <= timeoutMs
VerifyLoopInclusive(c, env) ==
    IF c.elapsed <= c.vTimeout
    THEN [c EXCEPT !.pc = IF c.op \in {"createContainer", "verifyContainer"}
                          THEN "vc_lookup" ELSE "v_lookup"]
    ELSE VerifyReturn(c, FALSE, env)

\* head of the while loop: start a lookup or time out
VerifyLoop(c, env) ==
    IF VerifyContinues(c.elapsed, c.vTimeout)
    THEN [c EXCEPT !.pc = IF c.op \in {"createContainer", "verifyContainer"}
                          THEN "vc_lookup" ELSE "v_lookup"]
    ELSE VerifyReturn(c, FALSE, env)

\* entry of a verify function: validation, coercion, startTime
StartVerify(c, validName, t, env) ==
    LET c1 == [c EXCEPT !.verifs = @ + 1, !.elapsed = 0, !.found = FALSE, !.erred = FALSE,
                        !.vTimeout = NormalizeVerifyTimeout(t)]
    IN IF ~validName THEN VerifyReturn(c1, FALSE, env) ELSE VerifyLoop(c1, env)

(***************************************************************************)
(* ensureEnvId (EnvironmentMixins.ts 60-78).                               *)
(***************************************************************************)
\* EnvironmentMixins.ts 253-257: redeployStack after
\* validateAndResolveEnvironmentId
RedeployAfterEnsure(c, id) ==
    IF id = Null
    THEN Return([c EXCEPT !.bres = FALSE], "returned")
    ELSE [c EXCEPT !.envId = id, !.pc = "rd_list"]

\* ShellControlsMixin.ts 75-105: executeCommandInEnvironment starts with
\* the request that creates the exec instance
ExecuteInEnvironment(c, envId) ==
    [c EXCEPT !.envId = envId, !.attemptEnvs = Append(@, envId), !.pc = "ex_create"]

\* ShellControlsMixin.ts 184-187: the error of the first attempt is logged
\* and rethrown
RethrowFirst(c) == Return([c EXCEPT !.thrown = "first"], "threw")

\* ShellControlsMixin.ts 160-169: executeCommand with its environment
ExecuteAfterEnsure(c, id) ==
    IF id = Null THEN Return(c, "returned") ELSE ExecuteInEnvironment(c, id)

\* ShellControlsMixin.ts 121-131: retryWithNewEnvironment after its
\* `await ensureEnvId()`; returning null makes executeCommand rethrow
RetryAfterEnsure(c, newEnvId) ==
    IF newEnvId = Null \/ newEnvId = c.envId THEN RethrowFirst(c)
    ELSE ExecuteInEnvironment(c, newEnvId)

\* ResourceDeletionMixin.ts 84-107: deleteStack with its environment; an
\* invalid id or an empty name is refused by the lookup before any fetch
DeleteAfterEnsure(c, id) ==
    IF id = Null THEN Return(c, "returned")
    ELSE IF (c.byName /\ c.name = "") \/ (~c.byName /\ c.argId <= 0)
         THEN Return([c EXCEPT !.envId = id], "returned")
         ELSE [c EXCEPT !.envId = id, !.pc = "ds_lookup"]

AfterEnsure(c, id, env) ==
    IF c.ensRet = "createStack" THEN CSAfterEnsure(c, id)
    ELSE IF c.ensRet = "delete" THEN DeleteAfterEnsure(c, id)
    ELSE IF c.ensRet = "cleanup" THEN CleanupAfterEnsure(c, id, env)
    ELSE IF c.ensRet = "execute" THEN ExecuteAfterEnsure(c, id)
    ELSE IF c.ensRet = "retry" THEN RetryAfterEnsure(c, id)
    ELSE IF c.ensRet = "redeploy" THEN RedeployAfterEnsure(c, id)
    ELSE Return([c EXCEPT !.nres = id], "returned")

\* ensureEnvId reporting null without a fetch when no id is cached
EnsureEnvIdGivesUp(c, cached, ret) ==
    AfterEnsure([c EXCEPT !.ensRet = ret], cached, cached)

\* ensureEnvId fetching the listing whether or not an id is cached
EnsureEnvIdUncached(c, cached, ret) ==
    [c EXCEPT !.ensRet = ret, !.pc = "ens_fetch", !.envFetches = @ + 1]

\* the synchronous part: return the cached id or start the listing fetch
EnsureEnvId(c, cached, ret) ==
    IF cached # Null
    THEN AfterEnsure([c EXCEPT !.ensRet = ret], cached, cached)
    ELSE [c EXCEPT !.ensRet = ret, !.pc = "ens_fetch", !.envFetches = @ + 1]

\* the value ensureEnvId leaves in this.environmentId
CacheEnvId(cached, firstEnvId) == IF firstEnvId = Null THEN cached ELSE firstEnvId

\* caller p moves to c; the resolutions it started without awaiting run on
SetCall(p, c, base) ==
    /\ call' = [call EXCEPT ![p] = c]
    /\ bgEnsure' = bgEnsure + c.bgStarted - base

\* a caller invokes ensureEnvId()
EnsureStart(p, limit) ==
    /\ CanStart(p, limit)
    /\ calls' = calls + 1
    /\ LET before == call[p]
           again == before.op = "ensureEnvId" /\ before.pc = "done"
       IN SetCall(p, EnsureEnvId([IdleCall EXCEPT !.op = "ensureEnvId",
                                      !.startEnv = environmentId,
                                      !.prevRes = IF again THEN before.nres ELSE Null,
                                      !.prevFetches = IF again THEN before.envFetches ELSE 0],
                                 environmentId, "ensureEnvId"), 0)
    /\ UNCHANGED <<environmentId, envs, stacks, pending, containers, created, instances, logger>>

\* getFirstEnvironmentId() resolves: cache the first listed id, if any
EnsureFetchDone(p) ==
    /\ call[p].pc = "ens_fetch"
    /\ \E fetched \in BOOLEAN :
        LET firstEnvId == GetFirstEnvironmentId(envs, fetched)
        IN /\ environmentId' = CacheEnvId(environmentId, firstEnvId)
           /\ SetCall(p, AfterEnsure(call[p], firstEnvId, environmentId'), call[p].bgStarted)
    /\ UNCHANGED <<envs, stacks, pending, containers, created, calls, instances, logger>>

\* a resolution that was started without awaiting it resolves
BgEnsureDone ==
    /\ bgEnsure > 0
    /\ bgEnsure' = bgEnsure - 1
    /\ \E fetched \in BOOLEAN :
        environmentId' = CacheEnvId(environmentId, GetFirstEnvironmentId(envs, fetched))
    /\ UNCHANGED <<envs, stacks, pending, containers, created, calls, call, instances, logger>>

(***************************************************************************)
(* createStack (factory.ts 35-106).                                        *)
(***************************************************************************)
\* lines 35-67: the un-awaited ensureEnvId(), the coercions, the required
\* fields, then the listing fetch of getStackByName
CreateStackStart(p, Args, limit) ==
    /\ CanStart(p, limit)
    /\ calls' = calls + 1
    /\ \E stackName \in StackNames \cup {""}, compose \in BOOLEAN, a \in Args :
        LET c0 == Unawaited([IdleCall EXCEPT !.op = "createStack", !.name = stackName,
                       !.argRetry = a[1], !.argTimeout = a[2],
                       !.startEnv = environmentId,
                       !.prevStack = IF call[p].op = "createStack" THEN call[p].result
                                     ELSE NoResult,
                       !.maxRetryCount = NormalizeRetryCount(a[1]),
                       !.timeoutMs = NormalizeTimeoutMs(a[2])], environmentId)
        IN SetCall(p, IF stackName = "" \/ ~compose
                      THEN Return(c0, "threw")
                      ELSE [c0 EXCEPT !.pc = "cs_lookup"], 0)
    /\ UNCHANGED <<environmentId, envs, stacks, pending, containers, created, instances, logger>>

\* the idempotency check skipped
ExistingStackIgnored(stack) == FALSE

\* the outcome of the idempotency check on the looked-up stack
ExistingStack(stack) == stack # NoStack

\* the idempotency check joined to a registry of creations in flight: a
\* call for a name another caller is creating returns without submitting
CreateStackLookupDoneDeduplicated(p) ==
    /\ call[p].pc = "cs_lookup"
    /\ \E fetched \in BOOLEAN :
        LET existingStack == GetStackByName(stacks, fetched, call[p].name)
            c == [call[p] EXCEPT !.existing = existingStack]
            inFlight == \E q \in Racers \ {p} :
                            /\ call[q].op = "createStack"
                            /\ call[q].name = c.name
                            /\ call[q].pc \in {"ens_fetch", "cs_post", "v_lookup", "v_sleep"}
        IN SetCall(p, IF ExistingStack(existingStack)
                      THEN Return([c EXCEPT !.result = StackObject(existingStack)], "existing")
                      ELSE IF inFlight
                      THEN Return([c EXCEPT !.result = EmptyObject], "existing")
                      ELSE EnsureEnvId(c, environmentId, "createStack"), c.bgStarted)
    /\ UNCHANGED <<environmentId, envs, stacks, pending, containers, created, calls, instances, logger>>

\* lines 67-78: the idempotency check, then `await ensureEnvId()`
CreateStackLookupDone(p) ==
    /\ call[p].pc = "cs_lookup"
    /\ \E fetched \in BOOLEAN :
        LET existingStack == GetStackByName(stacks, fetched, call[p].name)
            c == [call[p] EXCEPT !.existing = existingStack]
        IN SetCall(p, IF ExistingStack(existingStack)
                      THEN Return([c EXCEPT !.result = StackObject(existingStack)], "existing")
                      ELSE EnsureEnvId(c, environmentId, "createStack"), c.bgStarted)
    /\ UNCHANGED <<environmentId, envs, stacks, pending, containers, created, calls, instances, logger>>

\* lines 88-95: the creation request resolves or rejects; on success the
\* verification starts, on failure the catch block returns {}
CreateStackPostDone(p) ==
    /\ call[p].pc = "cs_post"
    /\ LET c == call[p]
       IN \/ /\ SetCall(p, Return([c EXCEPT !.result = EmptyObject], "caught"), c.bgStarted)
             /\ UNCHANGED <<pending, created>>
          \/ /\ created < MaxCreated
             /\ LET s == Stack(FirstCreatedId + created, c.name, c.envId)
                IN /\ pending' = pending \cup {s}
                   /\ created' = created + 1
                   /\ SetCall(p, StartVerify([c EXCEPT !.resp = s], c.name # "",
                                             c.timeoutMs, environmentId), c.bgStarted)
    /\ UNCHANGED <<environmentId, envs, stacks, containers, calls, instances, logger>>

(***************************************************************************)
(* createContainer (factory.ts 118-177) with cleanupExistingContainer      *)
(* (ResourceDeletionMixin.ts 21-60).                                       *)
(***************************************************************************)
\* lines 119-142: sanitize, coerce, then cleanupExistingContainer begins
\* with `await ensureEnvId()`
CreateContainerStart(p, Args, limit) ==
    /\ CanStart(p, limit)
    /\ calls' = calls + 1
    /\ \E rawName \in ContainerNameArgs, a \in Args :
        LET c0 == [IdleCall EXCEPT !.op = "createContainer", !.cleanups = 1,
                       !.cname = SanitizeName(rawName),
                       !.argRetry = a[1], !.argTimeout = a[2],
                       !.startEnv = environmentId,
                       !.maxRetryCount = NormalizeRetryCount(a[1]),
                       !.timeoutMs = NormalizeTimeoutMs(a[2])]
        IN SetCall(p, EnsureEnvId(c0, environmentId, "cleanup"), 0)
    /\ UNCHANGED <<environmentId, envs, stacks, pending, containers, created, instances, logger>>

\* cleanup: the container listing arrives; stop or remove the match
CleanupListDone(p) ==
    /\ call[p].pc = "cc_clean_list"
    /\ \E fetched \in BOOLEAN :
        LET c == call[p]
            k == IF fetched THEN CleanupTarget(containers, c.cname) ELSE 0
        IN SetCall(p, IF k = 0
                      THEN CCAfterCleanup([c EXCEPT !.cleanupFailed =
                                              IF fetched THEN "none" ELSE "listing"],
                                          environmentId)
                      ELSE [c EXCEPT !.target = containers[k].Id,
                                     !.pc = IF containers[k].State = "running"
                                            THEN "cc_clean_stop" ELSE "cc_clean_rm"],
                   c.bgStarted)
    /\ UNCHANGED <<environmentId, envs, stacks, pending, containers, created, calls, instances, logger>>

\* cleanup: the stop request resolves (then remove) or rejects (give up)
CleanupStopDone(p) ==
    /\ call[p].pc = "cc_clean_stop"
    /\ LET c == call[p]
       IN \/ /\ containers' = [k \in 1..Len(containers) |->
                    IF containers[k].Id = c.target
                    THEN [containers[k] EXCEPT !.State = "exited"]
                    ELSE containers[k]]
             /\ SetCall(p, [c EXCEPT !.pc = "cc_clean_rm"], c.bgStarted)
          \/ /\ UNCHANGED containers
             /\ SetCall(p, CCAfterCleanup([c EXCEPT !.cleanupFailed = "stop"], environmentId),
                        c.bgStarted)
    /\ UNCHANGED <<environmentId, envs, stacks, pending, created, calls, instances, logger>>

\* cleanup: the remove request resolves or rejects; either way the loop starts
CleanupRemoveDone(p) ==
    /\ call[p].pc = "cc_clean_rm"
    /\ LET c == call[p]
       IN \/ /\ containers' = SelectSeq(containers, LAMBDA x : x.Id # c.target)
             /\ SetCall(p, CCAfterCleanup(c, environmentId), c.bgStarted)
          \/ /\ UNCHANGED containers
             /\ SetCall(p, CCAfterCleanup([c EXCEPT !.cleanupFailed = "remove"],
                                          environmentId), c.bgStarted)
    /\ UNCHANGED <<environmentId, envs, stacks, pending, created, calls, instances, logger>>

\* lines 146-156: the create request resolves (then the start request is
\* sent) or rejects (the exception leaves createContainer)
CreateContainerPostDone(p) ==
    /\ call[p].pc = "cc_create"
    /\ LET c == call[p]
       IN \/ /\ SetCall(p, Return(c, "threw"), c.bgStarted)
             /\ UNCHANGED <<containers, created>>
          \/ /\ created < MaxCreated
             /\ created' = created + 1
             /\ \E listed \in BOOLEAN :
                 containers' = IF listed
                     THEN Append(containers,
                            Container(FirstCreatedId + created, << <<"/">> \o c.cname >>, "created"))
                     ELSE containers
             /\ SetCall(p, Unawaited(RequestUrl([c EXCEPT !.pc = "cc_start",
                                          !.containerId = FirstCreatedId + created]),
                                     environmentId), c.bgStarted)
    /\ UNCHANGED <<environmentId, envs, stacks, pending, calls, instances, logger>>

\* lines 156-161: the start request resolves (then verification starts with
\* the fixed 10000 ms timeout) or rejects (the exception leaves the call)
CreateContainerStartDone(p) ==
    /\ call[p].pc = "cc_start"
    /\ LET c == call[p]
       IN \/ /\ SetCall(p, Return(c, "threw"), c.bgStarted)
             /\ UNCHANGED containers
          \/ /\ containers' = [k \in 1..Len(containers) |->
                    IF containers[k].Id = c.containerId
                    THEN [containers[k] EXCEPT !.State = "running"]
                    ELSE containers[k]]
             /\ SetCall(p, StartVerify(c, Len(c.cname) > 0,
                                       Num(ContainerVerifyTimeoutMs), environmentId),
                        c.bgStarted)
    /\ UNCHANGED <<environmentId, envs, stacks, pending, created, calls, instances, logger>>

(***************************************************************************)
(* The polling loop of the verify functions.                               *)
(***************************************************************************)
\* a caller invokes verifyStackCreation(stackName, timeoutMs)
VerifyStackStart(p, limit) ==
    /\ CanStart(p, limit)
    /\ calls' = calls + 1
    /\ \E stackName \in StackNames \cup {""}, t \in VerifyTimeoutArgs :
        SetCall(p, StartVerify([IdleCall EXCEPT !.op = "verifyStack", !.name = stackName,
                                    !.argTimeout = t], stackName # "", t, environmentId), 0)
    /\ UNCHANGED <<environmentId, envs, stacks, pending, containers, created, instances, logger>>

\* a caller invokes verifyContainerCreation(containerName, timeoutMs)
VerifyContainerStart(p, limit) ==
    /\ CanStart(p, limit)
    /\ calls' = calls + 1
    /\ \E containerName \in {<<>>, <<"a", "p">>, <<"d", "-">>}, t \in VerifyTimeoutArgs :
        SetCall(p, StartVerify([IdleCall EXCEPT !.op = "verifyContainer",
                                    !.cname = containerName, !.argTimeout = t],
                               Len(containerName) > 0, t, environmentId), 0)
    /\ UNCHANGED <<environmentId, envs, stacks, pending, containers, created, instances, logger>>

\* a lookup that ends the polling as soon as it fails
VerifyLookupDoneFailsFast(p) ==
    /\ call[p].pc = "v_lookup"
    /\ \E latency \in Latencies, fetched \in BOOLEAN :
        LET stack == GetStackByName(stacks, fetched, call[p].name)
            c == [call[p] EXCEPT !.elapsed = @ + latency,
                                 !.found = (stack # NoStack),
                                 !.erred = (@ \/ ~fetched)]
        IN SetCall(p, IF stack # NoStack
                      THEN VerifyReturn(c, TRUE, environmentId)
                      ELSE IF ~fetched
                      THEN VerifyReturn(c, FALSE, environmentId)
                      ELSE [c EXCEPT !.pc = "v_sleep"], c.bgStarted)
    /\ UNCHANGED <<environmentId, envs, stacks, pending, containers, created, calls, instances, logger>>

\* a lookup after which the loop sleeps although the stack was found
VerifyLookupDoneSleepsOn(p) ==
    /\ call[p].pc = "v_lookup"
    /\ \E latency \in Latencies, fetched \in BOOLEAN :
        LET stack == GetStackByName(stacks, fetched, call[p].name)
            c == [call[p] EXCEPT !.elapsed = @ + latency,
                                 !.found = (stack # NoStack),
                                 !.erred = (@ \/ ~fetched)]
        IN SetCall(p, [c EXCEPT !.pc = "v_sleep"], c.bgStarted)
    /\ UNCHANGED <<environmentId, envs, stacks, pending, containers, created, calls, instances, logger>>

\* the stack lookup of one polling round resolves
VerifyLookupDone(p) ==
    /\ call[p].pc = "v_lookup"
    /\ \E latency \in Latencies, fetched \in BOOLEAN :
        LET stack == GetStackByName(stacks, fetched, call[p].name)
            c == [call[p] EXCEPT !.elapsed = @ + latency,
                                 !.found = (stack # NoStack),
                                 !.erred = (@ \/ ~fetched)]
        IN SetCall(p, IF stack # NoStack
                      THEN VerifyReturn(c, TRUE, environmentId)
                      ELSE [c EXCEPT !.pc = "v_sleep"], c.bgStarted)
    /\ UNCHANGED <<environmentId, envs, stacks, pending, containers, created, calls, instances, logger>>

\* the container lookup of one polling round resolves: getContainerDetails
\* resolves the environment, fetches the listing and matches the name
VerifyContainerLookupDone(p) ==
    /\ call[p].pc = "vc_lookup"
    /\ \E latency \in Latencies, envFetched \in BOOLEAN, fetched \in BOOLEAN :
        LET firstEnvId == GetFirstEnvironmentId(envs, envFetched)
            resolved == IF environmentId # Null THEN environmentId ELSE firstEnvId
            container == GetContainerDetails(containers, resolved, fetched, call[p].cname)
            c == [call[p] EXCEPT !.elapsed = @ + latency,
                                 !.envFetches = @ + IF environmentId = Null THEN 1 ELSE 0,
                                 !.found = (container # NoContainer),
                                 !.erred = (@ \/ ~fetched \/ resolved = Null)]
        IN /\ environmentId' = resolved
           /\ SetCall(p, IF container # NoContainer
                         THEN VerifyReturn(c, TRUE, resolved)
                         ELSE [c EXCEPT !.pc = "v_sleep"], c.bgStarted)
    /\ UNCHANGED <<envs, stacks, pending, containers, created, calls, instances, logger>>

\* a sleep during which the clock stands still
AfterSleepFrozenClock(elapsed) == elapsed

\* utils.ts 170: the clock after `setTimeout(resolve, 1000)` has fired
AfterSleep(elapsed) == elapsed + PollIntervalMs

\* the 1000 ms timer fires and the loop condition is evaluated again
VerifySleepDone(p) ==
    /\ call[p].pc = "v_sleep"
    /\ SetCall(p, VerifyLoop([call[p] EXCEPT !.elapsed = AfterSleep(@)], environmentId),
               call[p].bgStarted)
    /\ UNCHANGED <<environmentId, envs, stacks, pending, containers, created, calls, instances, logger>>

(***************************************************************************)
(* getStackById (utils.ts 110-133).                                        *)
(***************************************************************************)
GetStackByIdStart(p, limit) ==
    /\ CanStart(p, limit)
    /\ calls' = calls + 1
    /\ \E stackid \in StackIdArgs, env \in EnvIdArgs :
        LET c0 == [IdleCall EXCEPT !.op = "getStackById", !.argId = stackid, !.argEnv = env]
        IN SetCall(p, IF stackid <= 0 \/ env <= 0
                      THEN Return(c0, "returned")
                      ELSE [c0 EXCEPT !.pc = "gsi_fetch"], 0)
    /\ UNCHANGED <<environmentId, envs, stacks, pending, containers, created, instances, logger>>

\* a lookup function whose catch block is missing
LookupReturnUncaught(c, outcome, value) ==
    IF outcome = "raised"
    THEN Return([c EXCEPT !.fetch = outcome], "threw")
    ELSE Return([c EXCEPT !.fetch = outcome, !.fetchOk = (outcome = "ok"),
                          !.result = IF outcome = "ok" THEN value ELSE NoResult], "returned")

\* the end of a lookup function: the match or null when the listing came,
\* null from the `!listing` test or from the catch block otherwise
LookupReturn(c, outcome, value) ==
    Return([c EXCEPT !.fetch = outcome, !.fetchOk = (outcome = "ok"),
                     !.result = IF outcome = "ok" THEN value ELSE NoResult], "returned")

GetStackByIdDone(p) ==
    /\ call[p].pc = "gsi_fetch"
    /\ \E outcome \in FetchOutcomes :
        LET c == call[p]
            stack == GetStackById(stacks, outcome = "ok", c.argId, c.argEnv)
        IN SetCall(p, LookupReturn(c, outcome,
                        IF stack = NoStack THEN NoResult ELSE StackObject(stack)),
                   c.bgStarted)
    /\ UNCHANGED <<environmentId, envs, stacks, pending, containers, created, calls, instances, logger>>

(***************************************************************************)
(* getStackByName (utils.ts 81-102) called directly.                       *)
(***************************************************************************)
GetStackByNameStart(p, limit) ==
    /\ CanStart(p, limit)
    /\ calls' = calls + 1
    /\ \E stackName \in StackNames \cup {"db", ""} :
        LET c0 == [IdleCall EXCEPT !.op = "getStackByName", !.name = stackName]
        IN SetCall(p, IF stackName = ""
                      THEN Return(c0, "returned")
                      ELSE [c0 EXCEPT !.pc = "gsn_fetch"], 0)
    /\ UNCHANGED <<environmentId, envs, stacks, pending, containers, created, instances, logger>>

GetStackByNameDone(p) ==
    /\ call[p].pc = "gsn_fetch"
    /\ \E outcome \in FetchOutcomes :
        LET c == call[p]
            stack == GetStackByName(stacks, outcome = "ok", c.name)
        IN SetCall(p, LookupReturn(c, outcome,
                        IF stack = NoStack THEN NoResult ELSE StackObject(stack)),
                   c.bgStarted)
    /\ UNCHANGED <<environmentId, envs, stacks, pending, containers, created, calls, instances, logger>>

(***************************************************************************)
(* getContainerByName (portainer/utils.ts 20-40) and getContainerByDetails *)
(* (utils.ts 28-74).  getContainers resolves the environment first and     *)
(* delivers nothing when there is none.                                    *)
(***************************************************************************)
FoundContainer(c) == [kind |-> "found", Id |-> c.Id, Name |-> "", EndpointId |-> 0]

\* what getContainers(true) gives: nothing without an environment
ContainersOutcome(resolved, outcome) ==
    IF resolved = Null /\ outcome = "ok" THEN "nothing" ELSE outcome

GetContainerByNameStart(p, limit) ==
    /\ CanStart(p, limit)
    /\ calls' = calls + 1
    /\ \E containerName \in NameQueries :
        SetCall(p, [IdleCall EXCEPT !.op = "getContainerByName", !.cname = containerName,
                                    !.startEnv = environmentId, !.pc = "gcn_fetch"], 0)
    /\ UNCHANGED <<environmentId, envs, stacks, pending, containers, created, instances, logger>>

GetContainerByNameDone(p) ==
    /\ call[p].pc = "gcn_fetch"
    /\ \E envFetched \in BOOLEAN, fetchOutcome \in FetchOutcomes :
        LET resolved == IF environmentId # Null THEN environmentId
                        ELSE GetFirstEnvironmentId(envs, envFetched)
            outcome == ContainersOutcome(resolved, fetchOutcome)
            c == [call[p] EXCEPT !.envFetches = @ + IF environmentId = Null THEN 1 ELSE 0]
            k == GetContainerByName(containers, outcome = "ok", c.cname)
        IN /\ environmentId' = resolved
           /\ SetCall(p, LookupReturn(c, outcome,
                            IF k = 0 THEN NoResult ELSE FoundContainer(containers[k])),
                      c.bgStarted)
    /\ UNCHANGED <<envs, stacks, pending, containers, created, calls, instances, logger>>

\* utils.ts 31-51: the validation; without a criterion null is returned
GetContainerByDetailsStart(p, limit) ==
    /\ CanStart(p, limit)
    /\ calls' = calls + 1
    /\ \E image \in ImageArgs, label \in LabelArgs :
        LET c0 == [IdleCall EXCEPT !.op = "getContainerByDetails", !.argImage = image,
                                   !.argLabel = label, !.startEnv = environmentId]
        IN SetCall(p, IF image = "" /\ label = ""
                      THEN Return(c0, "returned")
                      ELSE [c0 EXCEPT !.pc = "gcd_fetch"], 0)
    /\ UNCHANGED <<environmentId, envs, stacks, pending, containers, created, instances, logger>>

GetContainerByDetailsDone(p) ==
    /\ call[p].pc = "gcd_fetch"
    /\ \E envFetched \in BOOLEAN, fetchOutcome \in FetchOutcomes :
        LET resolved == IF environmentId # Null THEN environmentId
                        ELSE GetFirstEnvironmentId(envs, envFetched)
            outcome == ContainersOutcome(resolved, fetchOutcome)
            c == [call[p] EXCEPT !.envFetches = @ + IF environmentId = Null THEN 1 ELSE 0]
            k == GetContainerByDetails(containers, outcome = "ok", c.argImage, c.argLabel)
        IN /\ environmentId' = resolved
           /\ SetCall(p, LookupReturn(c, outcome,
                            IF k = 0 THEN NoResult ELSE FoundContainer(containers[k])),
                      c.bgStarted)
    /\ UNCHANGED <<envs, stacks, pending, containers, created, calls, instances, logger>>

(***************************************************************************)
(* The remote side.                                                        *)
(***************************************************************************)
\* the listing is kept in id order
InsertById(list, s) ==
    LET k == Cardinality({j \in 1..Len(list) : list[j].Id < s.Id})
    IN SubSeq(list, 1, k) \o <<s>> \o SubSeq(list, k + 1, Len(list))

\* an accepted creation becomes visible in the stack listing
RemoteDeploy ==
    /\ \E s \in pending :
        /\ pending' = pending \ {s}
        /\ stacks' = InsertById(stacks, s)
    /\ UNCHANGED <<environmentId, envs, containers, created, bgEnsure, calls, call, instances, logger>>

(***************************************************************************)
(* Specifications.                                                         *)
(***************************************************************************)
Step(p) ==
    \/ EnsureFetchDone(p)
    \/ CreateStackLookupDone(p)
    \/ CreateStackPostDone(p)
    \/ VerifyLookupDone(p)
    \/ VerifySleepDone(p)

\* one call, of any operation, on a client in any initial state
Next ==
    \/ \E p \in Callers : Step(p)
    \/ \E p \in Callers : EnsureStart(p, Cardinality(Callers))
    \/ \E p \in Callers : CreateStackStart(p, CreateArgs, Cardinality(Callers))
    \/ \E p \in Callers : CreateContainerStart(p, ContainerArgs, Cardinality(Callers))
    \/ \E p \in Callers : CleanupListDone(p)
    \/ \E p \in Callers : CleanupStopDone(p)
    \/ \E p \in Callers : CleanupRemoveDone(p)
    \/ \E p \in Callers : CreateContainerPostDone(p)
    \/ \E p \in Callers : CreateContainerStartDone(p)
    \/ \E p \in Callers : VerifyStackStart(p, Cardinality(Callers))
    \/ \E p \in Callers : VerifyContainerStart(p, Cardinality(Callers))
    \/ \E p \in Callers : VerifyContainerLookupDone(p)
    \/ \E p \in Callers : GetStackByIdStart(p, Cardinality(Callers))
    \/ \E p \in Callers : GetStackByIdDone(p)
    \/ BgEnsureDone
    \/ RemoteDeploy

Spec == Init /\ [][Next]_vars

\* the steps that a call of caller p waits for: a transport call returning
\* or the sleep timer firing
Progress(p) ==
    \/ Step(p)
    \/ CleanupListDone(p)
    \/ CleanupStopDone(p)
    \/ CleanupRemoveDone(p)
    \/ CreateContainerPostDone(p)
    \/ CreateContainerStartDone(p)
    \/ VerifyContainerLookupDone(p)

\* one call of createStack, createContainer or a verify function
NextLive ==
    \/ \E p \in Callers : Step(p)
    \/ \E p \in Callers : CreateStackStart(p, LiveArgs, Cardinality(Callers))
    \/ \E p \in Callers : CreateContainerStart(p, LiveContainerArgs, Cardinality(Callers))
    \/ \E p \in Callers : CleanupListDone(p)
    \/ \E p \in Callers : CleanupStopDone(p)
    \/ \E p \in Callers : CleanupRemoveDone(p)
    \/ \E p \in Callers : CreateContainerPostDone(p)
    \/ \E p \in Callers : CreateContainerStartDone(p)
    \/ \E p \in Callers : VerifyStackStart(p, Cardinality(Callers))
    \/ \E p \in Callers : VerifyContainerStart(p, Cardinality(Callers))
    \/ \E p \in Callers : VerifyContainerLookupDone(p)
    \/ BgEnsureDone
    \/ RemoteDeploy

\* every transport call eventually returns and every timer eventually fires
SpecLive == Init /\ [][NextLive]_vars /\ \A p \in Callers : WF_vars(Progress(p))

\* two callers sharing the client instance, MaxCalls calls between them,
\* one after the other or overlapping
NextRace ==
    \/ \E p \in Racers : Step(p)
    \/ \E p \in Racers : EnsureStart(p, MaxCalls)
    \/ \E p \in Racers : CreateStackStart(p, RaceArgs, MaxCalls)
    \/ BgEnsureDone
    \/ RemoteDeploy

SpecRace == Init /\ [][NextRace]_vars

\* one call of a lookup function against a populated container listing
InitLookup ==
    /\ environmentId \in {Null, 1}
    /\ envs \in InitialEnvListings
    /\ environmentId # Null => Len(envs) > 0
    /\ stacks = InitialStacks
    /\ pending = {}
    /\ containers \in LookupListings
    /\ created = 0
    /\ bgEnsure = 0
    /\ calls = 0
    /\ call = [p \in Racers |-> IdleCall]
    /\ instances = Constructed
    /\ logger = NoMessages

NextLookup ==
    \/ \E p \in Callers : GetStackByNameStart(p, Cardinality(Callers))
    \/ \E p \in Callers : GetStackByNameDone(p)
    \/ \E p \in Callers : GetStackByIdStart(p, Cardinality(Callers))
    \/ \E p \in Callers : GetStackByIdDone(p)
    \/ \E p \in Callers : GetContainerByNameStart(p, Cardinality(Callers))
    \/ \E p \in Callers : GetContainerByNameDone(p)
    \/ \E p \in Callers : GetContainerByDetailsStart(p, Cardinality(Callers))
    \/ \E p \in Callers : GetContainerByDetailsDone(p)

SpecLookup == InitLookup /\ [][NextLookup]_vars

(***************************************************************************)
(* redeployStack with stopStack and startStack (EnvironmentMixins.ts       *)
(* 146-190, 245-294).                                                      *)
(***************************************************************************)
\* what a stop or start request can do
RequestOutcomes == {"ok", "failed"}

\* lines 249-257: validation, then the environment given or resolved
RedeployStackStart(p, limit) ==
    /\ CanStart(p, limit)
    /\ calls' = calls + 1
    /\ \E stackId \in StackIdArgs, env \in EnvIdArgs :
        LET c0 == [IdleCall EXCEPT !.op = "redeployStack", !.argId = stackId, !.argEnv = env,
                                   !.startEnv = environmentId]
        IN SetCall(p, IF stackId <= 0 THEN Return(c0, "returned")
                      ELSE IF env # Null
                           THEN RedeployAfterEnsure([c0 EXCEPT !.ensRet = "redeploy"], env)
                           ELSE EnsureEnvId(c0, environmentId, "redeploy"), 0)
    /\ UNCHANGED <<environmentId, envs, stacks, pending, containers, created, instances, logger>>

\* lines 263-273: the stack listing arrives; the stack must be listed, then
\* stopStack sends its request
RedeployListDone(p) ==
    /\ call[p].pc = "rd_list"
    /\ \E outcome \in FetchOutcomes :
        LET c == [call[p] EXCEPT !.fetch = outcome]
            listed == \E k \in 1..Len(stacks) : stacks[k].Id = c.argId
        IN SetCall(p, IF outcome = "ok" /\ listed
                      THEN [c EXCEPT !.pc = "rd_stop"]
                      ELSE Return([c EXCEPT !.bres = FALSE], "returned"), c.bgStarted)
    /\ UNCHANGED <<environmentId, envs, stacks, pending, containers, created, calls, instances, logger>>

\* lines 172-190, 276-283: stopStack resolves to true or, its request
\* having failed, to false; the value is not used and the 2000 ms wait begins
RedeployStopDone(p) ==
    /\ call[p].pc = "rd_stop"
    /\ \E outcome \in RequestOutcomes :
        SetCall(p, [call[p] EXCEPT !.stopRes = outcome, !.pc = "rd_wait"], call[p].bgStarted)
    /\ UNCHANGED <<environmentId, envs, stacks, pending, containers, created, calls, instances, logger>>

\* line 283-286: the wait is over and startStack sends its request
RedeployWaitDone(p) ==
    /\ call[p].pc = "rd_wait"
    /\ SetCall(p, [call[p] EXCEPT !.elapsed = @ + RedeployWaitMs, !.pc = "rd_start"],
               call[p].bgStarted)
    /\ UNCHANGED <<environmentId, envs, stacks, pending, containers, created, calls, instances, logger>>

\* lines 146-164, 286-289: startStack resolves to true or, its request
\* having failed, to false; the value is not used and redeployStack
\* returns true
RedeployStartDone(p) ==
    /\ call[p].pc = "rd_start"
    /\ \E outcome \in RequestOutcomes :
        SetCall(p, Return([call[p] EXCEPT !.startRes = outcome, !.bres = TRUE], "returned"),
                call[p].bgStarted)
    /\ UNCHANGED <<environmentId, envs, stacks, pending, containers, created, calls, instances, logger>>

(***************************************************************************)
(* executeCommand (ShellControlsMixin.ts 75-190).                          *)
(***************************************************************************)
\* how a request of an attempt can fail: an HTTP status, or "network" for
\* an error without a response
FailureStatuses == {"404", "500", "network"}

\* executeCommand retrying after any failure
RetriesAfterAnyFailure(status) == TRUE

\* ShellControlsMixin.ts 173: axios.isAxiosError(error) &&
\* error.response?.status === 404
RetriesAfter(status) == status = "404"

\* lines 153-169: validation, then the environment given or resolved
ExecuteCommandStart(p, limit) ==
    /\ CanStart(p, limit)
    /\ calls' = calls + 1
    /\ \E valid \in BOOLEAN, env \in EnvIdArgs :
        LET c0 == [IdleCall EXCEPT !.op = "executeCommand", !.argEnv = env,
                                   !.startEnv = environmentId]
        IN SetCall(p, IF ~valid THEN Return(c0, "returned")
                      ELSE IF env # Null
                           THEN ExecuteAfterEnsure([c0 EXCEPT !.ensRet = "execute"], env)
                           ELSE EnsureEnvId(c0, environmentId, "execute"), 0)
    /\ UNCHANGED <<environmentId, envs, stacks, pending, containers, created, instances, logger>>

\* a request of an attempt has failed: the first attempt's failure may be
\* retried, the retry's failure is caught and the first error rethrown
ExecuteFailed(c, status, cached) ==
    IF Len(c.attemptEnvs) = 1
    THEN LET c1 == [c EXCEPT !.firstStatus = status]
         IN IF RetriesAfter(status) THEN EnsureEnvId(c1, cached, "retry")
            ELSE RethrowFirst(c1)
    ELSE RethrowFirst([c EXCEPT !.retryStatus = status])

\* lines 82-88: the request creating the exec instance resolves or fails
ExecuteCreateDone(p) ==
    /\ call[p].pc = "ex_create"
    /\ LET c == call[p]
       IN \/ SetCall(p, [c EXCEPT !.pc = "ex_start"], c.bgStarted)
          \/ \E status \in FailureStatuses :
                SetCall(p, ExecuteFailed(c, status, environmentId), c.bgStarted)
    /\ UNCHANGED <<environmentId, envs, stacks, pending, containers, created, calls, instances, logger>>

\* lines 91-105: the request starting the exec instance resolves (the result
\* is returned) or fails
ExecuteStartDone(p) ==
    /\ call[p].pc = "ex_start"
    /\ LET c == call[p]
       IN \/ SetCall(p, Return([c EXCEPT !.result = [EmptyObject EXCEPT !.kind = "output"]],
                               "returned"), c.bgStarted)
          \/ \E status \in FailureStatuses :
                SetCall(p, ExecuteFailed(c, status, environmentId), c.bgStarted)
    /\ UNCHANGED <<environmentId, envs, stacks, pending, containers, created, calls, instances, logger>>

(***************************************************************************)
(* deleteStack (ResourceDeletionMixin.ts 83-119).                          *)
(***************************************************************************)
\* what identifies the stack: <<TRUE, name>> or <<FALSE, id>>
DeleteTargets ==
    {<<TRUE, n>> : n \in StackNames \cup {"db", ""}} \cup {<<FALSE, i>> : i \in StackIdArgs}

\* lines 83-91: the environment given or resolved
DeleteStackStart(p, limit) ==
    /\ CanStart(p, limit)
    /\ calls' = calls + 1
    /\ \E t \in DeleteTargets, env \in EnvIdArgs :
        LET c0 == [IdleCall EXCEPT !.op = "deleteStack", !.byName = t[1],
                                   !.name = IF t[1] THEN t[2] ELSE "",
                                   !.argId = IF t[1] THEN 0 ELSE t[2],
                                   !.argEnv = env, !.startEnv = environmentId]
        IN SetCall(p, IF env # Null
                      THEN DeleteAfterEnsure([c0 EXCEPT !.ensRet = "delete"], env)
                      ELSE EnsureEnvId(c0, environmentId, "delete"), 0)
    /\ UNCHANGED <<environmentId, envs, stacks, pending, containers, created, instances, logger>>

\* lines 93-108: getStackById(stackId, environmentId) for a number,
\* getStackByName(stackId) for a string; without a stack nothing is sent
DeleteLookupDone(p) ==
    /\ call[p].pc = "ds_lookup"
    /\ \E outcome \in FetchOutcomes :
        LET c == [call[p] EXCEPT !.fetch = outcome]
            stack == IF c.byName THEN GetStackByName(stacks, outcome = "ok", c.name)
                     ELSE GetStackById(stacks, outcome = "ok", c.argId, c.envId)
        IN SetCall(p, IF stack = NoStack THEN Return(c, "returned")
                      ELSE [c EXCEPT !.target = stack.Id, !.deletes = @ + 1,
                                     !.pc = "ds_delete"], c.bgStarted)
    /\ UNCHANGED <<environmentId, envs, stacks, pending, containers, created, calls, instances, logger>>

\* lines 110-118: the DELETE request resolves or fails
DeleteRequestDone(p) ==
    /\ call[p].pc = "ds_delete"
    /\ LET c == call[p]
       IN \/ /\ stacks' = SelectSeq(stacks, LAMBDA x : x.Id # c.target)
             /\ SetCall(p, Return([c EXCEPT !.result = [EmptyObject EXCEPT !.kind = "deleted"]],
                                  "returned"), c.bgStarted)
          \/ /\ UNCHANGED stacks
             /\ SetCall(p, Return(c, "returned"), c.bgStarted)
    /\ UNCHANGED <<environmentId, envs, pending, containers, created, calls, instances, logger>>

\* one call of a control operation of the client
NextStackOps ==
    \/ \E p \in Callers : EnsureFetchDone(p)
    \/ \E p \in Callers : RedeployStackStart(p, Cardinality(Callers))
    \/ \E p \in Callers : RedeployListDone(p)
    \/ \E p \in Callers : RedeployStopDone(p)
    \/ \E p \in Callers : RedeployWaitDone(p)
    \/ \E p \in Callers : RedeployStartDone(p)
    \/ \E p \in Callers : ExecuteCommandStart(p, Cardinality(Callers))
    \/ \E p \in Callers : ExecuteCreateDone(p)
    \/ \E p \in Callers : ExecuteStartDone(p)
    \/ \E p \in Callers : DeleteStackStart(p, Cardinality(Callers))
    \/ \E p \in Callers : DeleteLookupDone(p)
    \/ \E p \in Callers : DeleteRequestDone(p)

SpecStackOps == Init /\ [][NextStackOps]_vars

(***************************************************************************)
(* The application assigning the public field environmentId                *)
(* (controls.ts 57).                                                       *)
(***************************************************************************)
OverrideArgs == {2, 5}

\* `instance.environmentId = v`; the resolutions in flight are marked
AssignEnvironmentId ==
    /\ \E v \in OverrideArgs :
        /\ environmentId # v
        /\ environmentId' = v
        /\ call' = [p \in Racers |->
                       IF call[p].pc = "ens_fetch"
                       THEN [call[p] EXCEPT !.overridden = v] ELSE call[p]]
    /\ UNCHANGED <<envs, stacks, pending, containers, created, bgEnsure, calls, instances,
                   logger>>

\* ensureEnvId calls, one after the other or overlapping, and assignments
NextOverride ==
    \/ \E p \in Racers : EnsureStart(p, MaxCalls)
    \/ \E p \in Racers : EnsureFetchDone(p)
    \/ AssignEnvironmentId

SpecOverride == Init /\ [][NextOverride]_vars

(***************************************************************************)
(* The singletons: PortainerApi.getInstance (controls.ts 79-94) and        *)
(* PortainerFactory.getInstance (factory.ts 5-21).  Objects are numbered   *)
(* in the order `new` makes them; 0 is an undefined static field.          *)
(***************************************************************************)
\* getInstance storing the argument of every call
GetInstanceLastWins(s, current, environmentId_) == environmentId_

\* controls.ts 89-92 with the constructor's `this.environmentId =
\* environmentId`: the environment id of the instance after the call
GetInstanceEnvironmentId(s, current, environmentId_) ==
    IF s.api = 0 THEN environmentId_ ELSE current

\* controls.ts 86-93: the static fields after PortainerApi.getInstance(e),
\* the call and the returned object written to the log
ApiGetInstance(s, e, env, from) ==
    LET made == IF s.api = 0
                THEN [s EXCEPT !.api = s.objects + 1, !.objects = @ + 1]
                ELSE s
    IN [made EXCEPT !.log = Append(@, [cls |-> "api", arg |-> e, ret |-> made.api,
                                       env |-> env, from |-> from])]

\* factory.ts 8-20: the static fields after PortainerFactory.getInstance(e);
\* the constructor of the first call obtains the client with the same argument
FactoryGetInstance(s, e, env) ==
    LET made == IF s.factory = 0
                THEN LET a == ApiGetInstance(s, e, env, "factory")
                     IN [a EXCEPT !.client = a.api, !.factory = a.objects + 1,
                                  !.objects = @ + 1]
                ELSE s
    IN [made EXCEPT !.log = Append(@, [cls |-> "factory", arg |-> e, ret |-> made.factory,
                                       env |-> env, from |-> "caller"])]

\* a caller invokes PortainerApi.getInstance(e); Null is null or no argument
PortainerApiGetInstance ==
    /\ Len(instances.log) < MaxGets
    /\ \E e \in InstanceArgs :
        LET env == GetInstanceEnvironmentId(instances, environmentId, e)
        IN /\ environmentId' = env
           /\ instances' = ApiGetInstance(instances, e, env, "caller")
    /\ UNCHANGED <<envs, stacks, pending, containers, created, bgEnsure, calls, call, logger>>

\* a caller invokes PortainerFactory.getInstance(e)
PortainerFactoryGetInstance ==
    /\ Len(instances.log) < MaxGets
    /\ \E e \in InstanceArgs :
        LET env == IF instances.factory = 0
                   THEN GetInstanceEnvironmentId(instances, environmentId, e)
                   ELSE environmentId
        IN /\ environmentId' = env
           /\ instances' = FactoryGetInstance(instances, e, env)
    /\ UNCHANGED <<envs, stacks, pending, containers, created, bgEnsure, calls, call, logger>>

InitInstance ==
    /\ environmentId = Null
    /\ envs = <<>>
    /\ stacks = InitialStacks
    /\ pending = {}
    /\ containers = InitialContainers
    /\ created = 0
    /\ bgEnsure = 0
    /\ calls = 0
    /\ call = [p \in Racers |-> IdleCall]
    /\ instances = NoInstances
    /\ logger = NoMessages

NextInstance ==
    \/ PortainerApiGetInstance
    \/ PortainerFactoryGetInstance

SpecInstance == InitInstance /\ [][NextInstance]_vars

(***************************************************************************)
(* The logger (logger.ts).  Loggers are numbered, DefaultLogger being 0.   *)
(***************************************************************************)
\* the loggers an application installs
CustomLoggers == {1, 2}
Levels == {"info", "warn", "error"}

\* logger.ts 34-36: logInfo, logWarn and logError are the methods of
\* DefaultLogger, bound when the module is loaded; the logger a message
\* sent through them reaches, given the active logger
LogFunctionSink(active) == DefaultLogger

\* logger.ts 44-46: setLogger(logger)
SetLogger ==
    /\ \E l \in CustomLoggers : logger' = [logger EXCEPT !.active = l]
    /\ UNCHANGED <<environmentId, envs, stacks, pending, containers, created, bgEnsure,
                   calls, call, instances>>

\* the library emits a message through logInfo / logWarn / logError
LibraryLogs ==
    /\ Len(logger.delivered) < MaxLogged
    /\ \E level \in Levels :
        logger' = [logger EXCEPT !.delivered =
                      Append(@, [level |-> level, active |-> logger.active,
                                 sink |-> LogFunctionSink(logger.active)])]
    /\ UNCHANGED <<environmentId, envs, stacks, pending, containers, created, bgEnsure,
                   calls, call, instances>>

NextLogger ==
    \/ SetLogger
    \/ LibraryLogs

SpecLogger == Init /\ [][NextLogger]_vars

(***************************************************************************)
(* Properties.                                                             *)
(***************************************************************************)
IsVerifyCall(c) ==
    \/ c.op = "verifyStack" /\ c.name # ""
    \/ c.op = "verifyContainer" /\ Len(c.cname) > 0

\* the stacks of that name the remote side knows, listed or still deploying
KnownStacks(name) ==
    {stacks[k] : k \in {j \in 1..Len(stacks) : stacks[j].Name = name}}
        \cup {s \in pending : s.Name = name}

\* C1: a createStack call whose lookup finds a listed stack of the requested
\* name returns that stack and issues no creation request and no
\* verification; a second call whose lookup finds the stack the first call
\* returned gives back the same stack and submits nothing.
CreateStackReusesExisting ==
    \A p \in Racers :
        LET c == call[p]
        IN (c.op = "createStack" /\ c.existing # NoStack) =>
              /\ c.pc = "done"
              /\ c.result = StackObject(c.existing)
              /\ c.existing.Name = c.name
              /\ \E k \in 1..Len(stacks) : stacks[k] = c.existing
              /\ c.posts = 0
              /\ c.verifs = 0
              /\ (c.prevStack.kind = "stack" /\ c.prevStack.Name = c.name
                    /\ Cardinality(KnownStacks(c.name)) = 1) => c.result = c.prevStack

SecondCreateStackReturnsFirst ==
    \E p \in Racers :
        LET c == call[p]
        IN /\ c.op = "createStack" /\ c.pc = "done" /\ c.existing # NoStack
           /\ c.prevStack.kind = "stack" /\ c.prevStack.Id >= FirstCreatedId
           /\ c.result = c.prevStack
           /\ c.posts = 0

\* C2: a createStack call submits at most maxRetryCount creation requests,
\* one verification after each submission before the next one; when every
\* submission succeeded and every verification failed it has submitted
\* exactly maxRetryCount requests and returns the empty object.
RetryBound ==
    \A p \in Callers :
        LET c == call[p]
        IN c.op = "createStack" =>
              /\ c.verifs <= c.posts
              /\ c.posts <= c.verifs + 1
              /\ c.pc = "cs_post" => c.posts = c.verifs + 1
              /\ c.pc \in {"v_lookup", "v_sleep"} => c.posts = c.verifs
              /\ (c.argRetry.t = "num" /\ c.argRetry.v >= 1) => c.maxRetryCount = c.argRetry
              /\ c.maxRetryCount.t = "num" => c.posts <= c.maxRetryCount.v
              /\ (c.pc = "done" /\ c.posts >= 1 /\ c.posts = c.verifs /\ c.outcome # "created") =>
                    /\ c.posts = c.maxRetryCount.v
                    /\ c.result = EmptyObject

TwoSubmissionsThenEmpty ==
    \E p \in Callers :
        LET c == call[p]
        IN /\ c.op = "createStack" /\ c.pc = "done"
           /\ c.argRetry = Num(2) /\ c.argTimeout = Num(100)
           /\ c.posts = 2 /\ c.verifs = 2
           /\ c.result = EmptyObject

\* C3: a verify call that returns false for a valid name has run for at
\* least its timeout T (the given value when it is a non-negative number);
\* the same holds for each failed verification inside createStack.
VerifyFalseNotBeforeTimeout ==
    \A p \in Callers :
        LET c == call[p]
        IN /\ (IsVerifyCall(c) /\ c.pc = "done" /\ ~c.bres) =>
                 /\ c.outcome = "returned"
                 /\ c.elapsed >= c.vTimeout
                 /\ (c.argTimeout.t = "num" /\ c.argTimeout.v >= 0) => c.vTimeout = c.argTimeout.v
           /\ (c.op = "createStack" /\ c.verifs >= 1 /\ c.posts > c.verifs) =>
                 c.elapsed >= c.vTimeout
           /\ (c.op = "createStack" /\ c.verifs >= 1 /\ c.pc = "done" /\ c.outcome = "exhausted") =>
                 c.elapsed >= c.vTimeout

VerifyFalseAtTimeout ==
    \E p \in Callers :
        LET c == call[p]
        IN /\ c.op = "verifyStack" /\ c.name # "" /\ c.pc = "done" /\ ~c.bres
           /\ c.argTimeout = Num(2000)
           /\ c.elapsed = 2000

\* C4 as stated: a verify call never runs longer than its timeout T plus
\* the worst-case latency of one lookup.
VerifyWithinTimeoutPlusLatency ==
    \A p \in Callers :
        LET c == call[p]
        IN IsVerifyCall(c) => c.elapsed <= c.vTimeout + MaxLatency

\* C4 amended: a verify call starts no lookup once T ms have elapsed, and it
\* runs for less than T plus the worst-case latency of one lookup plus one
\* polling interval of 1000 ms.
VerifyOverrunBounded ==
    \A p \in Callers :
        LET c == call[p]
        IN /\ (c.verifs >= 1 /\ c.pc \in {"v_lookup", "vc_lookup"}) => c.elapsed < c.vTimeout
           /\ c.verifs >= 1 => c.elapsed < c.vTimeout + MaxLatency + PollIntervalMs

VerifyOverrunsTimeout ==
    \E p \in Callers :
        LET c == call[p]
        IN /\ IsVerifyCall(c) /\ c.pc = "done" /\ ~c.bres
           /\ c.elapsed > c.vTimeout + MaxLatency

\* C5: an ensureEnvId call made while an environment id is cached returns
\* that id without fetching the listing; a resolution that succeeds leaves
\* its id cached; the call that follows a successful call of the same caller
\* fetches nothing, so the two issue one fetch in total.
EnvIdCached ==
    /\ [](\A p \in Racers :
            LET c == call[p]
            IN (c.op = "ensureEnvId" /\ c.pc = "done") =>
                  /\ c.startEnv # Null => (c.nres = c.startEnv /\ c.envFetches = 0)
                  /\ c.prevRes # Null =>
                        (c.nres = c.prevRes /\ c.envFetches = 0 /\ c.prevFetches <= 1))
    /\ [][\A p \in Racers :
            (call[p].pc = "ens_fetch" /\ call'[p].pc = "done"
                /\ call'[p].op = "ensureEnvId" /\ call'[p].nres # Null)
              => environmentId' = call'[p].nres]_vars

SecondEnsureEnvIdFetchesNothing ==
    \E p \in Racers :
        LET c == call[p]
        IN /\ c.op = "ensureEnvId" /\ c.pc = "done"
           /\ c.prevRes # Null /\ c.prevFetches = 1
           /\ c.envFetches = 0
           /\ c.nres = c.prevRes

\* C6: getStackById returns a stack only when that stack is listed with the
\* requested Id and the requested EndpointId; a stack whose Id matches but
\* which belongs to another environment is not returned, the result is null.
GetStackByIdMatchesEnvironment ==
    \A p \in Callers :
        LET c == call[p]
        IN (c.op = "getStackById" /\ c.pc = "done") =>
              /\ c.result.kind \in {"stack", "none"}
              /\ c.result.kind = "stack" =>
                    /\ c.result.Id = c.argId
                    /\ c.result.EndpointId = c.argEnv
                    /\ \E k \in 1..Len(stacks) : StackObject(stacks[k]) = c.result
              /\ (\A k \in 1..Len(stacks) :
                        stacks[k].Id # c.argId \/ stacks[k].EndpointId # c.argEnv)
                    => c.result = NoResult

OtherEnvironmentStackNotReturned ==
    \E p \in Callers :
        LET c == call[p]
        IN /\ c.op = "getStackById" /\ c.pc = "done" /\ c.fetchOk
           /\ c.argId = 5 /\ c.argEnv = 1
           /\ \E k \in 1..Len(stacks) : stacks[k].Id = 5 /\ stacks[k].EndpointId = 2
           /\ c.result = NoResult

\* C7: createStack given a negative maxRetryCount runs with 3 attempts and
\* given a negative timeoutMs verifies with 5000 ms, exactly the values a
\* call given 3 and 5000 runs with; the call is not rejected for them.
NegativeArgumentsBecomeDefaults ==
    \A p \in Callers :
        LET c == call[p]
        IN c.op = "createStack" =>
              /\ c.argRetry \in {Num(-5), Num(3)} => c.maxRetryCount = Num(3)
              /\ c.argTimeout \in {Num(-100), Num(5000)} => c.timeoutMs = Num(5000)
              /\ (c.argTimeout \in {Num(-100), Num(5000)} /\ c.verifs >= 1) => c.vTimeout = 5000
              /\ (c.argRetry \in {Num(-5), Num(3)} /\ c.pc = "done" /\ c.outcome = "exhausted")
                    => c.posts = 3
              /\ (c.pc = "done" /\ c.outcome = "threw") => c.posts = 0

NegativeArgumentsRunThreeAttempts ==
    \E p \in Callers :
        LET c == call[p]
        IN /\ c.op = "createStack" /\ c.pc = "done"
           /\ c.argRetry = Num(-5) /\ c.argTimeout = Num(-100)
           /\ c.posts = 3 /\ c.verifs = 3
           /\ c.vTimeout = 5000 /\ c.elapsed >= 5000
           /\ c.result = EmptyObject

\* C8: a createStack or createContainer call all of whose attempts were
\* submitted and failed verification returns the empty object; it does not
\* throw.
ExhaustionReturnsEmptyObject ==
    \A p \in Callers :
        LET c == call[p]
        IN (c.op \in {"createStack", "createContainer"} /\ c.pc = "done"
               /\ c.maxRetryCount.t = "num" /\ c.i = c.maxRetryCount.v) =>
              /\ c.outcome = "exhausted"
              /\ c.result = EmptyObject
              /\ c.posts = c.maxRetryCount.v
              /\ c.verifs = c.maxRetryCount.v

CreateContainerExhausted ==
    \E p \in Callers :
        LET c == call[p]
        IN /\ c.op = "createContainer" /\ c.pc = "done"
           /\ c.i = c.maxRetryCount.v /\ c.posts = 2
           /\ c.outcome # "threw"
           /\ c.result = EmptyObject

ConcurrentCreateStackNotExclusive ==
    \A p \in Racers :
        LET c == call[p]
        IN (c.op = "createStack" /\ c.pc \notin {"cs_lookup", "ens_fetch"}
               /\ c.outcome # "threw" /\ c.existing = NoStack) => c.posts >= 1

BothCallsSubmitSameName ==
    \E p \in Racers, q \in Racers :
        /\ p # q
        /\ call[p].op = "createStack" /\ call[q].op = "createStack"
        /\ call[p].name = call[q].name
        /\ call[p].existing = NoStack /\ call[q].existing = NoStack
        /\ call[p].posts = 1 /\ call[q].posts = 1
        /\ call[p].pc = "cs_post" /\ call[q].pc = "cs_post"
        /\ KnownStacks(call[p].name) = {}

\* C11: the lookup that reports the resource found ends the verify call at
\* once with true: no sleep and no lookup follows it, so the call ends less
\* than one lookup's latency after the timeout at the latest, and a verify
\* call returns true only after such a lookup.
VerifyReturnsOnFound ==
    \A p \in Callers :
        LET c == call[p]
        IN /\ c.found => c.pc = "done"
           /\ (c.found /\ IsVerifyCall(c)) =>
                 /\ c.bres
                 /\ c.outcome = "returned"
                 /\ c.elapsed < c.vTimeout + MaxLatency
           /\ (c.found /\ c.op \in {"createStack", "createContainer"}) => c.outcome = "created"
           /\ (IsVerifyCall(c) /\ c.pc = "done" /\ c.bres) => c.found

FoundAfterNotFoundRounds ==
    \E p \in Callers :
        LET c == call[p]
        IN /\ c.op = "verifyStack" /\ c.pc = "done" /\ c.bres /\ c.found
           /\ c.elapsed = 2 * PollIntervalMs
           /\ c.elapsed < c.vTimeout

\* C12: a lookup that fails during a verify call does not make the call
\* throw and does not end the polling: the call goes on to the sleep, a
\* false result still comes only at the timeout, and a later lookup that
\* finds the resource makes the call return true.
LookupErrorsSwallowed ==
    \A p \in Callers :
        LET c == call[p]
        IN (IsVerifyCall(c) /\ c.erred) =>
              /\ c.pc \in {"v_lookup", "vc_lookup", "v_sleep", "done"}
              /\ c.pc = "done" => c.outcome = "returned"
              /\ (c.pc = "done" /\ ~c.bres) => c.elapsed >= c.vTimeout
              /\ (c.pc = "done" /\ c.bres) => c.found

TrueAfterLookupError ==
    \E p \in Callers :
        LET c == call[p]
        IN /\ c.op = "verifyStack" /\ c.pc = "done" /\ c.erred
           /\ c.bres /\ c.found
           /\ c.elapsed >= PollIntervalMs

\* C13 as stated: createStack and createContainer use every non-negative
\* numeric maxRetryCount and timeoutMs as given, 0 included, and take the
\* defaults 3 and 5000 for every other value, so a call never submits more
\* creation requests than the maxRetryCount it was given.
DefaultsOnlyForInvalidArguments ==
    \A p \in Callers :
        LET c == call[p]
            Valid(x) == x.t = "num" /\ x.v >= 0
        IN c.op \in {"createStack", "createContainer"} =>
              /\ c.maxRetryCount = IF Valid(c.argRetry) THEN c.argRetry
                                   ELSE Num(DefaultRetryCount)
              /\ c.timeoutMs = IF Valid(c.argTimeout) THEN c.argTimeout
                               ELSE Num(DefaultTimeoutMs)
              /\ Valid(c.argRetry) => c.posts <= c.argRetry.v

LookupFailureGivesNull ==
    \A p \in Callers :
        LET c == call[p]
        IN (c.op \in {"getStackByName", "getStackById", "getContainerByDetails"}
               /\ c.pc = "done") =>
              /\ c.outcome = "returned"
              /\ c.result.kind \in {"stack", "found", "none"}
              /\ c.fetch \in {"nothing", "raised"} => c.result = NoResult

RaisedFetchGivesNull ==
    \E p \in Callers :
        LET c == call[p]
        IN /\ c.op = "getContainerByDetails" /\ c.pc = "done"
           /\ c.fetch = "raised"
           /\ \E k \in 1..Len(containers) :
                 ContainerDetailsMatch(containers[k], c.argImage, c.argLabel)
           /\ c.result = NoResult

\* C16 as stated: a createStack or createContainer call that has submitted
\* a creation request never ends by throwing: when the request fails the
\* call returns a failure value, never a success record.
CreationErrorsDoNotEscape ==
    \A p \in Callers :
        LET c == call[p]
        IN (c.op \in {"createStack", "createContainer"} /\ c.pc = "done" /\ c.posts >= 1) =>
              /\ c.outcome # "threw"
              /\ c.outcome = "caught" => c.result = EmptyObject

\* C17 as stated: createContainer resolves the environment before its
\* attempt loop: a call that has issued a create or start request knows a
\* resolved environment id and addressed the request to that number; a call
\* whose environment was not resolved submits nothing.
CreateContainerAddressesResolvedEnvironment ==
    \A p \in Callers :
        LET c == call[p]
        IN (c.op = "createContainer" /\ c.posts >= 1) =>
              /\ c.envId # Null
              /\ c.urlEnv = NumberText(c.envId)

\* a name entry with one leading separator removed
StripLeadingSeparator(name) ==
    IF Len(name) > 0 /\ name[1] = "/" THEN Tail(name) ELSE name

\* the three ways a container answers a name query
NameQueryMatches(c, target) ==
    \E k \in 1..Len(c.Names) :
        \/ Includes(c.Names[k], target)
        \/ c.Names[k] = <<"/">> \o target
        \/ StripLeadingSeparator(c.Names[k]) = target

\* C18: when the listing arrives, getContainerByName returns the first
\* listed container one of whose name entries contains the target, equals
\* "/" + target or equals the target once its leading separator is
\* stripped, and null when there is none; /my-app answers the queries
\* my-app, app and /my-app and does not answer other.
NameLookupFirstMatch ==
    \A p \in Callers :
        LET c == call[p]
            hits == {k \in 1..Len(containers) : NameQueryMatches(containers[k], c.cname)}
        IN (c.op = "getContainerByName" /\ c.pc = "done" /\ c.fetch = "ok") =>
              /\ c.result = IF hits = {} THEN NoResult
                            ELSE FoundContainer(
                                   containers[CHOOSE k \in hits : \A j \in hits : k <= j])
              /\ (Len(containers) > 0 /\ c.cname \in
                     { <<"m", "y", "-", "a", "p", "p">>, <<"a", "p", "p">>,
                       <<"/", "m", "y", "-", "a", "p", "p">> }) => c.result # NoResult
              /\ c.cname = <<"o", "t", "h", "e", "r">> => c.result = NoResult

SubstringQueryFindsFirstListed ==
    \E p \in Callers :
        LET c == call[p]
        IN /\ c.op = "getContainerByName" /\ c.pc = "done" /\ c.fetch = "ok"
           /\ containers = <<MyApp, Db, App>>
           /\ c.cname = <<"a", "p", "p">>
           /\ c.result = FoundContainer(MyApp)

\* the criteria a details query provides, each of which a container must meet
MeetsCriteria(c, image, label) ==
    /\ image # "" => c.Image = image
    /\ label # "" => label \in DOMAIN c.Labels

\* C19: getContainerByDetails returns null without fetching the listing
\* when neither image nor label is given; when the listing arrives it
\* returns the first listed container whose image equals the given image
\* and which carries the given label key, whatever the label's value, and
\* null when no container meets every given criterion.
DetailsLookupFirstMatch ==
    \A p \in Callers :
        LET c == call[p]
            hits == {k \in 1..Len(containers) :
                        MeetsCriteria(containers[k], c.argImage, c.argLabel)}
        IN (c.op = "getContainerByDetails" /\ c.pc = "done") =>
              /\ (c.argImage = "" /\ c.argLabel = "") =>
                    c.result = NoResult /\ c.fetch = "none" /\ c.envFetches = 0
              /\ c.fetch = "ok" =>
                    c.result = IF hits = {} THEN NoResult
                               ELSE FoundContainer(
                                      containers[CHOOSE k \in hits : \A j \in hits : k <= j])

EmptyLabelValueMeetsBothCriteria ==
    \E p \in Callers :
        LET c == call[p]
        IN /\ c.op = "getContainerByDetails" /\ c.pc = "done" /\ c.fetch = "ok"
           /\ containers = <<MyApp, Db, App>>
           /\ c.argImage = "redis" /\ c.argLabel = "tier"
           /\ Db.Labels["tier"] = ""
           /\ c.result = FoundContainer(Db)

\* the getInstance calls of one class, by position in the log
CallsOf(cls) == {k \in 1..Len(instances.log) : instances.log[k].cls = cls}

\* C20: after any sequence of getInstance calls, every call of
\* PortainerApi.getInstance returned the same instance, whose environmentId
\* was at every return, and is now, the argument of the first call; every
\* call of PortainerFactory.getInstance returned the same factory, which
\* holds that one client and handed an argument on to it in its first call
\* only.
InstanceFirstCallWins ==
    LET log == instances.log
        api == CallsOf("api")
        factory == CallsOf("factory")
        first == CHOOSE k \in api : \A j \in api : k <= j
    IN /\ \A i \in api : log[i].ret # 0 /\ log[i].ret = instances.api
       /\ api # {} =>
             /\ environmentId = log[first].arg
             /\ \A i \in api \cup factory : i >= first => log[i].env = log[first].arg
       /\ \A i \in factory :
             /\ log[i].ret # 0 /\ log[i].ret = instances.factory
             /\ instances.client = instances.api
             /\ instances.factory # instances.api
       /\ \A i \in api : log[i].from = "factory" =>
             /\ i + 1 \in factory
             /\ log[i + 1].arg = log[i].arg
             /\ \A j \in factory : j >= i + 1

LaterArgumentsIgnored ==
    /\ Len(instances.log) = 4
    /\ instances.log[1].cls = "api" /\ instances.log[1].arg = 1
    /\ instances.log[2].cls = "api" /\ instances.log[2].arg = 5
    /\ instances.log[3].cls = "api" /\ instances.log[3].from = "factory"
    /\ instances.log[4].cls = "factory" /\ instances.log[4].arg = 2
    /\ instances.log[1].ret = instances.log[2].ret
    /\ instances.client = instances.log[1].ret
    /\ environmentId = 1

\* C21 as stated: after setLogger(L) every message the library emits through
\* logInfo / logWarn / logError is delivered to L, and after a further
\* setLogger(L2) to L2 and no longer to L.
LibraryMessagesReachActiveLogger ==
    \A k \in 1..Len(logger.delivered) :
        logger.delivered[k].sink = logger.delivered[k].active

\* C22 as stated: every iteration of createContainer's attempt loop runs the
\* cleanup before it submits its creation request, so a call has run the
\* cleanup at least as often as it has submitted.
CleanupBeforeEverySubmission ==
    \A p \in Callers :
        LET c == call[p]
        IN c.op = "createContainer" => c.posts <= c.cleanups

\* C23: a failure during the cleanup (no environment, the listing, the stop
\* request or the remove request failing) never ends createContainer: the
\* cleanup does not throw, and when at least one attempt is allowed the
\* creation request is submitted after it.
CleanupFailureNotFatal ==
    \A p \in Callers :
        LET c == call[p]
        IN (c.op = "createContainer" /\ c.cleanupFailed # "none") =>
              /\ JsLt(Num(0), c.maxRetryCount) => c.posts >= 1
              /\ ~(c.pc = "done" /\ c.outcome = "threw" /\ c.posts = 0)

CreatedAfterFailedRemove ==
    \E p \in Callers :
        LET c == call[p]
        IN /\ c.op = "createContainer" /\ c.cleanupFailed = "remove"
           /\ c.pc = "done" /\ c.outcome = "created"
           /\ \E k \in 1..Len(containers) : containers[k].Id = c.target

\* C24: provided every transport call eventually returns and the clock
\* advances, every createStack, createContainer and verify call eventually
\* completes, by returning a result or by failing.
CallsComplete ==
    \A p \in Callers :
        (call[p].op \in {"createStack", "createContainer", "verifyStack", "verifyContainer"})
            ~> (call[p].pc = "done")

RetriedCallCompleted ==
    \E p \in Callers :
        LET c == call[p]
        IN /\ c.op = "createStack" /\ c.pc = "done" /\ c.outcome = "exhausted"
           /\ c.posts = 2 /\ c.verifs = 2

\* C25 as stated: redeployStack returns true only if its start request
\* succeeded; when the start or the stop request fails it returns false.
RedeployTrueOnlyIfStarted ==
    \A p \in Callers :
        LET c == call[p]
        IN (c.op = "redeployStack" /\ c.pc = "done") =>
              /\ c.bres => c.startRes = "ok"
              /\ (c.startRes = "failed" \/ c.stopRes = "failed") => ~c.bres

\* C26: executeCommand makes at most two attempts; the second is made only
\* after the first failed with HTTP 404 and ensureEnvId gave a non-null
\* environment id other than the one that failed; whenever the first
\* attempt failed and no retry succeeded, the call throws the first error.
ExecuteRetriesOnceAfter404 ==
    \A p \in Callers :
        LET c == call[p]
        IN c.op = "executeCommand" =>
              /\ Len(c.attemptEnvs) <= 2
              /\ Len(c.attemptEnvs) = 2 =>
                    /\ c.firstStatus = "404"
                    /\ c.attemptEnvs[2] # Null
                    /\ c.attemptEnvs[2] # c.attemptEnvs[1]
              /\ (c.pc = "done" /\ c.firstStatus # "none") =>
                    \/ c.outcome = "threw" /\ c.thrown = "first"
                    \/ /\ c.outcome = "returned" /\ c.result.kind = "output"
                       /\ Len(c.attemptEnvs) = 2 /\ c.retryStatus = "none"
              /\ (c.pc = "done" /\ c.retryStatus # "none") =>
                    c.outcome = "threw" /\ c.thrown = "first"

FailedRetryRethrowsFirstError ==
    \E p \in Callers :
        LET c == call[p]
        IN /\ c.op = "executeCommand" /\ c.pc = "done"
           /\ c.attemptEnvs = <<2, 1>>
           /\ c.firstStatus = "404" /\ c.retryStatus = "500"
           /\ c.outcome = "threw" /\ c.thrown = "first"

\* C27 as stated: the cleanup sends a stop or remove request only for a
\* container one of whose names equals the given name, with or without the
\* leading "/"; a container whose name merely contains it is left alone.
CleanupOnlyExactName ==
    \A p \in Callers :
        LET c == call[p]
        IN (c.op = "createContainer" /\ c.pc \in {"cc_clean_stop", "cc_clean_rm"}) =>
              \A k \in 1..Len(containers) :
                  containers[k].Id = c.target =>
                      \E n \in 1..Len(containers[k].Names) :
                          \/ containers[k].Names[n] = c.cname
                          \/ containers[k].Names[n] = <<"/">> \o c.cname

\* C28 as stated: deleteStack sends a DELETE only for a stack whose
\* EndpointId is the environment id the call resolved, whether the stack is
\* given by id or by name.
DeleteOnlyInResolvedEnvironment ==
    \A p \in Callers :
        LET c == call[p]
        IN (c.op = "deleteStack" /\ c.pc = "ds_delete") =>
              \A k \in 1..Len(stacks) :
                  stacks[k].Id = c.target => stacks[k].EndpointId = c.envId

\* the environment-listing fetches in flight: those of awaited ensureEnvId
\* calls and those of resolutions started without awaiting
FetchesInFlight ==
    bgEnsure + Cardinality({p \in Racers : call[p].pc = "ens_fetch"})

\* C29 as stated: the ensureEnvId calls in flight at once on a client whose
\* environment id is unset issue at most one environment-listing fetch
\* between them.
ResolutionsShareOneFetch == FetchesInFlight <= 1

\* C30 as stated: an assignment to environmentId made while an ensureEnvId
\* resolution is in flight is preserved: the resolution, when it completes,
\* leaves the assigned value in place.
OverridePreserved ==
    [][\A p \in Racers :
          (call[p].pc = "ens_fetch" /\ call'[p].pc = "done" /\ call[p].overridden # Null)
            => environmentId' = call[p].overridden]_vars

TypeOK ==
    /\ environmentId \in (0..2) \cup InstanceArgs
    /\ calls \in 0..MaxCalls
    /\ bgEnsure >= 0
    /\ \A p \in Racers : call[p].pc \in
          {"idle", "done", "ens_fetch", "cs_lookup", "cs_post", "v_lookup", "vc_lookup",
           "v_sleep", "gsi_fetch", "cc_clean_list", "cc_clean_stop", "cc_clean_rm",
           "cc_create", "cc_start", "gsn_fetch", "gcn_fetch", "gcd_fetch",
           "rd_list", "rd_stop", "rd_wait", "rd_start", "ex_create", "ex_start",
           "ds_lookup", "ds_delete"}
====
